---- MODULE Spec2Model ----
(***************************************************************************)
(* Model of the query orchestration loop of dht-inspect (src/main.rs):     *)
(* optional FIND_NODE prepopulation followed by a GET_PROVIDERS lookup,    *)
(* driven by two event streams (litep2p transport events and Kademlia      *)
(* events) multiplexed by tokio::select!.                                  *)
(*                                                                         *)
(* Not modelled: wall-clock time (`start`, "Time spent") and the progress  *)
(* banners written by println! ("Prepopulating ...", "Running ...",        *)
(* "kademlia event: ..."); `out` records the statistics report and the     *)
(* provider lines only.                                                    *)
(***************************************************************************)
EXTENDS Integers, Sequences, FiniteSets, TLC

\* ------------------------------------------------------------------ bounds
\* Largest --prepopulate value explored.
MaxN == 2
\* Most commands (find_node / get_providers) the Kademlia handle accepts.
MaxCmds == 4
\* Longest peer list of a RoutingTableUpdate / provider list of a
\* GetProvidersSuccess.
MaxList == 2

\* ------------------------------------------------------------ value spaces
Peers == {"p1", "p2"}
Providers == {"P1", "P2"}
Keys == {"kA", "kB"}

\* Option::None of find_node_query / get_providers_query; query ids are >= 1.
None == 0

\* Query ids are handed out by the Kademlia handle, one fresh id per command:
\* the i-th command of the run gets id i.
QueryIds == 1..MaxCmds
\* An id no command of the run ever returns.
UnknownId == MaxCmds + 1

SeqsUpTo(S, n) == UNION {[1..k -> S] : k \in 0..n}

\* The elements of a sequence.
Range(f) == {f[i] : i \in DOMAIN f}

VARIABLES
    pc,                  \* "init" (line 84), "loop" (select!, line 106), "net" (line 107),
                         \* "kad" (line 114), "await" (suspended in the .await of
                         \* find_node / get_providers), "done" (main has returned)
    prepopulate,         \* args.prepopulate
    provider_key,        \* args.provider_key
    iterations,          \* let mut iterations
    find_node_query,     \* Option<QueryId>
    get_providers_query, \* Option<QueryId>
    cmds,                \* commands accepted by kademlia_handle, in order; id = index
    discovered_peers,    \* HashSet<PeerId>
    contacted_peers,     \* HashSet<PeerId>
    netEnded,            \* litep2p.next_event() has returned None
    ev,                  \* the event select! has yielded and the loop body is matching
    result,              \* return value of main
    out,                 \* report lines written to stdout
    fnsAllActive,        \* history: every FindNodeSuccess so far carried ActiveId
    rtuSeen,             \* history: peers of the RoutingTableUpdates the stream yielded
    ceSeen               \* history: peers of the ConnectionEstablished events yielded

vars == <<pc, prepopulate, provider_key, iterations, find_node_query,
          get_providers_query, cmds, discovered_peers, contacted_peers,
          netEnded, ev, result, out, fnsAllActive, rtuSeen, ceSeen>>

\* ----------------------------------------------------------------- events
Event(src, type, q, k, l) ==
    [src |-> src, type |-> type, query_id |-> q, key |-> k, list |-> l]

\* No event is held: the loop is waiting in select!.
NoEvent == Event("none", "none", None, "-", <<>>)

\* Litep2pEvent::ConnectionEstablished { peer, .. }, any other Some(_), None
ConnectionEstablished(p) == Event("net", "ConnectionEstablished", None, "-", <<p>>)
NetOtherEvent == Event("net", "Other", None, "-", <<>>)
NetNone == Event("net", "None", None, "-", <<>>)

\* KademliaEvent variants, and None for the end of the stream
FindNodeSuccess(q) == Event("kad", "FindNodeSuccess", q, "-", <<>>)
GetProvidersSuccess(q, k, ps) == Event("kad", "GetProvidersSuccess", q, k, ps)
QueryFailed(q) == Event("kad", "QueryFailed", q, "-", <<>>)
RoutingTableUpdate(ps) == Event("kad", "RoutingTableUpdate", None, "-", ps)
KadOtherEvent == Event("kad", "Other", None, "-", <<>>)
KadNone == Event("kad", "None", None, "-", <<>>)

\* Ids an event of the DHT layer can carry: those of issued commands, and
\* one id that belongs to no command.
EventIds == (1..Len(cmds)) \cup {UnknownId}

\* ---------------------------------------------------------------- helpers
\* Some(query_id) == opt
SomeEq(q, opt) == opt # None /\ opt = q

\* kademlia_handle.find_node(PeerId::random())
FindNodeCmd == [cmd |-> "find_node", arg |-> "random"]

\* kademlia_handle.get_providers(args.provider_key.clone())
GetProvidersCmd(k) == [cmd |-> "get_providers", arg |-> k]

\* The identifier kademlia_handle.find_node(..) / .get_providers(..) returns
\* for the most recently issued command.
ActiveId == Len(cmds)

\* for peer in peers { set.insert(peer) }
RECURSIVE InsertAll(_, _)
InsertAll(set, peers) ==
    IF peers = <<>> THEN set
    ELSE InsertAll(set \cup {Head(peers)}, Tail(peers))

\* print_statistics with the two sets taken in the wrong order.
print_statisticsSwapped(discovered, contacted) ==
    <<[line |-> "stats", discovered |-> Cardinality(contacted),
       contacted |-> Cardinality(discovered), provider |-> "-"]>>

\* print_statistics: the two counts (elapsed time is not modelled)
print_statistics(discovered, contacted) ==
    <<[line |-> "stats", discovered |-> Cardinality(discovered),
       contacted |-> Cardinality(contacted), provider |-> "-"]>>

\* print_providers writing the providers last to first.
print_providersReversed(providers) ==
    [i \in 1..Len(providers) |->
        [line |-> "provider", discovered |-> 0, contacted |-> 0,
         provider |-> providers[Len(providers) + 1 - i]]]

\* print_providers: one line per provider, in order
print_providers(providers) ==
    [i \in 1..Len(providers) |->
        [line |-> "provider", discovered |-> 0, contacted |-> 0,
         provider |-> providers[i]]]

\* -------------------------------------------------------------------- init
Init ==
    /\ pc = "init"
    /\ prepopulate \in 0..MaxN
    /\ provider_key \in Keys
    /\ iterations = prepopulate
    /\ find_node_query = None
    /\ get_providers_query = None
    /\ cmds = <<>>
    /\ discovered_peers = {}
    /\ contacted_peers = {}
    /\ netEnded = FALSE
    /\ ev = NoEvent
    /\ result = "running"
    /\ out = <<>>
    /\ fnsAllActive = TRUE
    /\ rtuSeen = {}
    /\ ceSeen = {}

\* Start with the `iterations -= 1` of line 89 forgotten.
StartNoDecrement ==
    /\ pc = "init"
    /\ IF iterations > 0
       THEN /\ cmds' = Append(cmds, FindNodeCmd)
            /\ UNCHANGED iterations
       ELSE /\ cmds' = Append(cmds, GetProvidersCmd(provider_key))
            /\ UNCHANGED iterations
    /\ pc' = "await"
    /\ UNCHANGED <<prepopulate, provider_key, find_node_query,
                   get_providers_query, discovered_peers, contacted_peers,
                   netEnded, ev, result, out, fnsAllActive, rtuSeen, ceSeen>>

\* Lines 84-99 up to the .await: the first command is issued.
Start ==
    /\ pc = "init"
    /\ IF iterations > 0
       THEN /\ iterations' = iterations - 1
            /\ cmds' = Append(cmds, FindNodeCmd)
       ELSE /\ cmds' = Append(cmds, GetProvidersCmd(provider_key))
            /\ UNCHANGED iterations
    /\ pc' = "await"
    /\ UNCHANGED <<prepopulate, provider_key, find_node_query,
                   get_providers_query, discovered_peers, contacted_peers,
                   netEnded, ev, result, out, fnsAllActive, rtuSeen, ceSeen>>

\* The .await of lines 91, 94-98, 122 and 126-130 completes: the identifier
\* returned for the command just issued is stored in the Option field of
\* that command's kind, and main goes on to the loop.
CommandReturns ==
    /\ pc = "await"
    /\ IF cmds[Len(cmds)].cmd = "find_node"
       THEN find_node_query' = ActiveId /\ UNCHANGED get_providers_query
       ELSE get_providers_query' = ActiveId /\ UNCHANGED find_node_query
    /\ pc' = "loop"
    /\ UNCHANGED <<prepopulate, provider_key, iterations, cmds,
                   discovered_peers, contacted_peers, netEnded, ev, result,
                   out, fnsAllActive, rtuSeen, ceSeen>>

\* ------------------------------------------------- transport stream branch
\* Line 107: select! resolves with the outcome e of litep2p.next_event().
\* A stream that has ended keeps yielding None.
Network(e) ==
    /\ pc = "loop"
    /\ netEnded => e = NetNone
    /\ ev' = e
    /\ netEnded' = (netEnded \/ e = NetNone)
    /\ pc' = "net"
    /\ ceSeen' = IF e.type = "ConnectionEstablished"
                 THEN ceSeen \cup Range(e.list) ELSE ceSeen
    /\ UNCHANGED <<prepopulate, provider_key, iterations, find_node_query,
                   get_providers_query, cmds, discovered_peers, contacted_peers,
                   result, out, fnsAllActive, rtuSeen>>

\* NetworkMatch with None from next_event() treated as fatal.
NetworkMatchFatalNone(e) ==
    /\ contacted_peers' =
          IF e.type = "ConnectionEstablished"
          THEN contacted_peers \cup {e.list[1]}
          ELSE contacted_peers
    /\ pc' = IF e.type = "None" THEN "done" ELSE "loop"
    /\ result' = IF e.type = "None" THEN "Err: litep2p terminated" ELSE result
    /\ UNCHANGED <<out, iterations, find_node_query,
                   get_providers_query, cmds, discovered_peers>>

\* Lines 107-112: ConnectionEstablished inserts the peer; every other
\* outcome of next_event(), None included, falls into `_ => {}`.
NetworkMatch(e) ==
    /\ contacted_peers' =
          IF e.type = "ConnectionEstablished"
          THEN contacted_peers \cup {e.list[1]}
          ELSE contacted_peers
    /\ pc' = "loop"
    /\ UNCHANGED <<result, out, iterations, find_node_query,
                   get_providers_query, cmds, discovered_peers>>

\* The body of the transport branch, then back to select!.
HandleNetwork ==
    /\ pc = "net"
    /\ NetworkMatch(ev)
    /\ ev' = NoEvent
    /\ UNCHANGED <<prepopulate, provider_key, netEnded, fnsAllActive, rtuSeen,
                   ceSeen>>

\* --------------------------------------------------- Kademlia stream branch
\* The end of the Kademlia stream treated like `_ => {}` of the other branch.
KademliaTerminatedIgnored ==
    /\ pc' = "loop"
    /\ UNCHANGED <<result, out, iterations, find_node_query,
                   get_providers_query, cmds, discovered_peers, contacted_peers>>

\* KademliaTerminated printing the statistics before returning, as the
\* QueryFailed arms do.
KademliaTerminatedWithStatistics ==
    /\ out' = out \o print_statistics(discovered_peers, contacted_peers)
    /\ pc' = "done"
    /\ result' = "Err: libp2p Kademlia terminated"
    /\ UNCHANGED <<iterations, find_node_query, get_providers_query, cmds,
                   discovered_peers, contacted_peers>>

\* Lines 114-116: let Some(..) = kademlia_event else { return Err(..) }
KademliaTerminated ==
    /\ pc' = "done"
    /\ result' = "Err: libp2p Kademlia terminated"
    /\ UNCHANGED <<out, iterations, find_node_query, get_providers_query, cmds,
                   discovered_peers, contacted_peers>>

\* Line 119: the match guard of the FindNodeSuccess arm.
FindNodeSuccessGuard(e) ==
    e.type = "FindNodeSuccess" /\ SomeEq(e.query_id, find_node_query)

\* FindNodeSuccessArm with the `iterations -= 1` of line 121 forgotten.
FindNodeSuccessArmNoDecrement ==
    /\ IF iterations > 0
       THEN /\ cmds' = Append(cmds, FindNodeCmd)
            /\ UNCHANGED iterations
       ELSE /\ cmds' = Append(cmds, GetProvidersCmd(provider_key))
            /\ UNCHANGED iterations
    /\ pc' = "await"
    /\ UNCHANGED <<find_node_query, get_providers_query, result, out,
                   discovered_peers, contacted_peers>>

\* FindNodeSuccessArm with `iterations += 1` in place of line 121.
FindNodeSuccessArmIncrement ==
    /\ IF iterations > 0
       THEN /\ iterations' = iterations + 1
            /\ cmds' = Append(cmds, FindNodeCmd)
       ELSE /\ cmds' = Append(cmds, GetProvidersCmd(provider_key))
            /\ UNCHANGED iterations
    /\ pc' = "await"
    /\ UNCHANGED <<find_node_query, get_providers_query, result, out,
                   discovered_peers, contacted_peers>>

\* FindNodeSuccessArm decrementing before testing, with `>= 0` as the test;
\* iterations = -1 stands for the underflow of the usize.
FindNodeSuccessArmUnguarded ==
    /\ iterations' = iterations - 1
    /\ IF iterations' >= 0
       THEN cmds' = Append(cmds, FindNodeCmd)
       ELSE cmds' = Append(cmds, GetProvidersCmd(provider_key))
    /\ pc' = "await"
    /\ UNCHANGED <<find_node_query, get_providers_query, result, out,
                   discovered_peers, contacted_peers>>

\* Lines 120-131 up to the .await: the next find_node is issued, or
\* get_providers once iterations is 0.
FindNodeSuccessArm ==
    /\ IF iterations > 0
       THEN /\ iterations' = iterations - 1
            /\ cmds' = Append(cmds, FindNodeCmd)
       ELSE /\ cmds' = Append(cmds, GetProvidersCmd(provider_key))
            /\ UNCHANGED iterations
    /\ pc' = "await"
    /\ UNCHANGED <<find_node_query, get_providers_query, result, out,
                   discovered_peers, contacted_peers>>

\* GetProvidersMatches with the provided_key comparison of line 134 dropped.
GetProvidersMatchesIdOnly(e) ==
    SomeEq(e.query_id, get_providers_query)

\* GetProvidersMatches comparing against find_node_query instead of
\* get_providers_query.
GetProvidersMatchesWrongField(e) ==
    SomeEq(e.query_id, find_node_query) /\ e.key = provider_key

\* Line 134: the condition under which GetProvidersSuccess ends the run.
GetProvidersMatches(e) ==
    SomeEq(e.query_id, get_providers_query) /\ e.key = provider_key

\* Lines 133-139.
GetProvidersSuccessArm(e) ==
    IF GetProvidersMatches(e)
    THEN /\ out' = out \o print_statistics(discovered_peers, contacted_peers)
                       \o print_providers(e.list)
         /\ result' = "Ok"
         /\ pc' = "done"
         /\ UNCHANGED <<iterations, find_node_query, get_providers_query, cmds,
                        discovered_peers, contacted_peers>>
    ELSE /\ pc' = "loop"
         /\ UNCHANGED <<result, out, iterations, find_node_query,
                        get_providers_query, cmds, discovered_peers,
                        contacted_peers>>

\* Line 140: the match guard of the first QueryFailed arm.
FindNodeFailedGuard(e) ==
    e.type = "QueryFailed" /\ SomeEq(e.query_id, find_node_query)

\* FindNodeFailedArm with the print_statistics call of line 141 dropped.
FindNodeFailedArmNoStatistics ==
    /\ result' = "Err: FIND_NODE query failed"
    /\ pc' = "done"
    /\ UNCHANGED <<out, iterations, find_node_query, get_providers_query, cmds,
                   discovered_peers, contacted_peers>>

\* Lines 141-142.
FindNodeFailedArm ==
    /\ out' = out \o print_statistics(discovered_peers, contacted_peers)
    /\ result' = "Err: FIND_NODE query failed"
    /\ pc' = "done"
    /\ UNCHANGED <<iterations, find_node_query, get_providers_query, cmds,
                   discovered_peers, contacted_peers>>

\* GetProvidersFailedArm with the print_statistics call of line 145 dropped.
GetProvidersFailedArmNoStatistics ==
    /\ result' = "Err: Kademlia query failed"
    /\ pc' = "done"
    /\ UNCHANGED <<out, iterations, find_node_query, get_providers_query, cmds,
                   discovered_peers, contacted_peers>>

\* Line 144: the match guard of the second QueryFailed arm.
GetProvidersFailedGuard(e) ==
    e.type = "QueryFailed" /\ SomeEq(e.query_id, get_providers_query)

\* Lines 145-146.
GetProvidersFailedArm ==
    /\ out' = out \o print_statistics(discovered_peers, contacted_peers)
    /\ result' = "Err: Kademlia query failed"
    /\ pc' = "done"
    /\ UNCHANGED <<iterations, find_node_query, get_providers_query, cmds,
                   discovered_peers, contacted_peers>>

\* RoutingTableUpdateArm with the set replaced by the peers of the update
\* instead of extended with them.
RoutingTableUpdateArmOverwrite(e) ==
    /\ discovered_peers' = InsertAll({}, e.list)
    /\ pc' = "loop"
    /\ UNCHANGED <<result, out, iterations, find_node_query,
                   get_providers_query, cmds, contacted_peers>>

\* Lines 148-152.
RoutingTableUpdateArm(e) ==
    /\ discovered_peers' = InsertAll(discovered_peers, e.list)
    /\ pc' = "loop"
    /\ UNCHANGED <<result, out, iterations, find_node_query,
                   get_providers_query, cmds, contacted_peers>>

\* Lines 153-155: anything no earlier arm took is only logged.
DefaultArm ==
    /\ pc' = "loop"
    /\ UNCHANGED <<result, out, iterations, find_node_query,
                   get_providers_query, cmds, discovered_peers, contacted_peers>>

\* Lines 118-156: the arms in source order; an arm whose guard fails lets
\* the event fall through to the later arms.
KademliaMatch(e) ==
    IF FindNodeSuccessGuard(e) THEN FindNodeSuccessArm
    ELSE IF e.type = "GetProvidersSuccess" THEN GetProvidersSuccessArm(e)
    ELSE IF FindNodeFailedGuard(e) THEN FindNodeFailedArm
    ELSE IF GetProvidersFailedGuard(e) THEN GetProvidersFailedArm
    ELSE IF e.type = "RoutingTableUpdate" THEN RoutingTableUpdateArm(e)
    ELSE DefaultArm

\* Kademlia with the loop polling the stream again while the command of the
\* previous handler has not returned its identifier (a command handed to a
\* spawned task instead of awaited in place).
KademliaWhileSuspended(e) ==
    /\ pc \in {"loop", "await"}
    /\ FindNodeSuccessGuard(e) => Len(cmds) < MaxCmds
    /\ ev' = e
    /\ pc' = "kad"
    /\ rtuSeen' = IF e.type = "RoutingTableUpdate"
                  THEN rtuSeen \cup Range(e.list) ELSE rtuSeen
    /\ UNCHANGED <<prepopulate, provider_key, iterations, find_node_query,
                   get_providers_query, cmds, discovered_peers, contacted_peers,
                   netEnded, result, out, fnsAllActive, ceSeen>>

\* Line 113: select! resolves with the outcome e of kademlia_handle.next().
\* The handle accepts at most MaxCmds commands, so an event that would make
\* the loop issue one more is not delivered.
Kademlia(e) ==
    /\ pc = "loop"
    /\ FindNodeSuccessGuard(e) => Len(cmds) < MaxCmds
    /\ ev' = e
    /\ pc' = "kad"
    /\ rtuSeen' = IF e.type = "RoutingTableUpdate"
                  THEN rtuSeen \cup Range(e.list) ELSE rtuSeen
    /\ UNCHANGED <<prepopulate, provider_key, iterations, find_node_query,
                   get_providers_query, cmds, discovered_peers, contacted_peers,
                   netEnded, result, out, fnsAllActive, ceSeen>>

\* The body of the Kademlia branch (lines 114-156), up to its return, its end
\* or the .await of a command; the event is consumed unless main returns
\* while matching it.
HandleKademlia ==
    /\ pc = "kad"
    /\ IF ev = KadNone THEN KademliaTerminated ELSE KademliaMatch(ev)
    /\ ev' = IF pc' = "done" THEN ev ELSE NoEvent
    /\ fnsAllActive' =
          (fnsAllActive /\ (ev.type = "FindNodeSuccess" => ev.query_id = ActiveId))
    /\ UNCHANGED <<prepopulate, provider_key, netEnded, rtuSeen, ceSeen>>

\* ------------------------------------------------- the events of each kind
NetConnectionEstablished == \E p \in Peers : Network(ConnectionEstablished(p))
NetOther == Network(NetOtherEvent)
NetEnd == Network(NetNone)

KadFindNodeSuccess == \E q \in EventIds : Kademlia(FindNodeSuccess(q))
KadGetProvidersSuccess ==
    \E q \in EventIds, k \in Keys, ps \in SeqsUpTo(Providers, MaxList) :
        Kademlia(GetProvidersSuccess(q, k, ps))
KadQueryFailed == \E q \in EventIds : Kademlia(QueryFailed(q))
KadRoutingTableUpdate ==
    \E ps \in SeqsUpTo(Peers, MaxList) : Kademlia(RoutingTableUpdate(ps))
KadOther == Kademlia(KadOtherEvent)
KadEnd == Kademlia(KadNone)

Next ==
    \/ Start
    \/ CommandReturns
    \/ NetConnectionEstablished
    \/ NetOther
    \/ NetEnd
    \/ HandleNetwork
    \/ KadFindNodeSuccess
    \/ KadGetProvidersSuccess
    \/ KadQueryFailed
    \/ KadRoutingTableUpdate
    \/ KadOther
    \/ KadEnd
    \/ HandleKademlia

Spec == Init /\ [][Next]_vars

\* ------------------------------------------------------- live environment
\* The events by which the DHT layer resolves the outstanding query, i.e. the
\* most recently issued command: success or failure carrying its identifier;
\* the success of a get_providers query carries the key that was queried.
ResolutionEvents ==
    IF cmds[ActiveId].cmd = "find_node"
    THEN {FindNodeSuccess(ActiveId), QueryFailed(ActiveId)}
    ELSE {GetProvidersSuccess(ActiveId, cmds[ActiveId].arg, ps) :
              ps \in SeqsUpTo(Providers, MaxList)}
         \cup {QueryFailed(ActiveId)}

\* select! yields a resolution of the outstanding query.
ResolveActive ==
    /\ pc = "loop"
    /\ \E e \in ResolutionEvents : Kademlia(e)

\* The loop under a live DHT layer: main keeps running (the task is polled,
\* an accepted command returns its identifier, a yielded event is matched),
\* and a resolution of the outstanding query, possible every time the loop
\* is back in select!, is eventually yielded.
LiveSpec ==
    /\ Init
    /\ [][Next]_vars
    /\ WF_vars(Start)
    /\ WF_vars(CommandReturns)
    /\ WF_vars(HandleNetwork)
    /\ WF_vars(HandleKademlia)
    /\ SF_vars(ResolveActive)

\* ===================================================== properties checked
\* Vocabulary of the properties.  A step taken at pc = "kad" (pc = "net") is
\* the loop body processing the Kademlia (transport) event ev.

\* The event kinds that carry a query identifier.
IdEventTypes == {"FindNodeSuccess", "GetProvidersSuccess", "QueryFailed"}

\* The orchestrator state: remaining counter, awaited identifiers, commands.
orch == <<iterations, find_node_query, get_providers_query, cmds>>

GetProvidersIds(cs) == {i \in 1..Len(cs) : cs[i].cmd = "get_providers"}
FindNodeIds(cs) == {i \in 1..Len(cs) : cs[i].cmd = "find_node"}

\* The identifier returned by the latest get_providers command, None if none.
LastGetProvidersId ==
    IF GetProvidersIds(cmds) = {} THEN None
    ELSE CHOOSE i \in GetProvidersIds(cmds) :
            \A j \in GetProvidersIds(cmds) : j <= i

\* n find_node commands followed by get_providers for key k.
ExpectedCmds(n, k) ==
    [i \in 1..(n + 1) |-> IF i <= n THEN FindNodeCmd ELSE GetProvidersCmd(k)]

IsPrefix(a, b) == Len(a) <= Len(b) /\ \A i \in 1..Len(a) : a[i] = b[i]

\* The identifiers an incoming event can match: those held by the two
\* Option fields the match guards compare against.
MatchableIds ==
    {q \in QueryIds \cup {UnknownId} :
        SomeEq(q, find_node_query) \/ SomeEq(q, get_providers_query)}

StatsLine(d, c) ==
    [line |-> "stats", discovered |-> d, contacted |-> c, provider |-> "-"]

QueryFailureResults ==
    {"Err: FIND_NODE query failed", "Err: Kademlia query failed"}

\* C1: a FindNodeSuccess, GetProvidersSuccess or QueryFailed whose identifier
\* is not that of the most recently issued command leaves the remaining
\* counter and the awaited identifiers unchanged and issues no command.
C1_StaleEventLeavesStateUnchanged ==
    [][(pc = "kad" /\ ev.type \in IdEventTypes /\ ev.query_id # ActiveId)
          => UNCHANGED orch]_vars

\* C2: initialization, the only step taken before the loop polls its first
\* event, issues exactly one command: find_node when N > 0 (N-1 iterations
\* remain and the identifier it returned is awaited as the find_node query),
\* get_providers for the requested key when N = 0 (no find_node query is
\* awaited).
C2_InitialCommand ==
    [][/\ pc = "init" =>
          /\ cmds = <<>> /\ ev = NoEvent
          /\ pc' = "await" /\ ev' = NoEvent
          /\ IF prepopulate > 0
             THEN cmds' = <<FindNodeCmd>> /\ iterations' = prepopulate - 1
             ELSE cmds' = <<GetProvidersCmd(provider_key)>> /\ iterations' = 0
       /\ (pc = "await" /\ Len(cmds) = 1) =>
             /\ pc' = "loop" /\ ev' = NoEvent
             /\ UNCHANGED <<cmds, iterations>>
             /\ IF prepopulate > 0
                THEN find_node_query' = 1 /\ get_providers_query' = None
                ELSE get_providers_query' = 1 /\ find_node_query' = None]_vars

\* Witness of C2: initialization done with the largest N, one find_node
\* issued and awaited, N-1 iterations left.
C2_Witness ==
    /\ pc = "loop"
    /\ prepopulate = MaxN
    /\ cmds = <<FindNodeCmd>>
    /\ iterations = MaxN - 1
    /\ find_node_query = ActiveId

\* C3: for N > 0, as long as every processed FindNodeSuccess carries the
\* active identifier, each of them lowers the counter by one and issues one
\* find_node while the counter is positive, the first one seen at zero issues
\* get_providers, nothing else issues a command, and the commands issued are
\* a prefix of N find_node followed by get_providers, with the counter equal
\* to N minus the number of find_node commands issued.
C3_PrepopulationSequence ==
    [][(prepopulate > 0 /\ fnsAllActive') =>
          /\ pc # "init" =>
                IF pc = "kad" /\ ev.type = "FindNodeSuccess"
                THEN IF iterations > 0
                     THEN /\ iterations' = iterations - 1
                          /\ cmds' = Append(cmds, FindNodeCmd)
                     ELSE IF GetProvidersIds(cmds) = {}
                     THEN /\ iterations' = 0
                          /\ cmds' = Append(cmds, GetProvidersCmd(provider_key))
                     ELSE iterations' = 0 /\ cmds' = cmds
                ELSE iterations' = iterations /\ cmds' = cmds
          /\ IsPrefix(cmds', ExpectedCmds(prepopulate, provider_key))
          /\ iterations' = prepopulate - Cardinality(FindNodeIds(cmds'))]_vars

\* Witness of C3: the whole sequence of N find_node and get_providers was
\* issued by matching FindNodeSuccess events only.
C3_Witness ==
    /\ fnsAllActive
    /\ prepopulate = MaxN
    /\ iterations = 0
    /\ cmds = ExpectedCmds(MaxN, provider_key)

\* C4: a GetProvidersSuccess ends the run with success exactly when a
\* get_providers command has been issued, the event carries the identifier
\* that command returned and its provided_key is the requested key; any other
\* GetProvidersSuccess changes nothing, and no other event yields success.
C4_GetProvidersSuccessIffMatch ==
    [][/\ (pc = "kad" /\ ev.type = "GetProvidersSuccess") =>
             IF /\ LastGetProvidersId # None
                /\ ev.query_id = LastGetProvidersId
                /\ ev.key = provider_key
             THEN pc' = "done" /\ result' = "Ok"
             ELSE /\ pc' = "loop"
                  /\ UNCHANGED <<result, out, orch, discovered_peers,
                                 contacted_peers>>
       /\ (result # "Ok" /\ result' = "Ok") =>
             pc = "kad" /\ ev.type = "GetProvidersSuccess"]_vars

\* Witness of C4: a run with prepopulation ended by a matching event.
C4_Witness ==
    /\ result = "Ok"
    /\ prepopulate > 0
    /\ ev.type = "GetProvidersSuccess"
    /\ ev.query_id = get_providers_query
    /\ ev.key = provider_key

\* C5: a QueryFailed carrying the active identifier ends the run with a
\* query-failure error, appends the statistics accumulated so far to the
\* output and issues no command.
C5_ActiveQueryFailedEndsRun ==
    [][(pc = "kad" /\ ev.type = "QueryFailed" /\ ev.query_id = ActiveId) =>
          /\ pc' = "done"
          /\ result' \in QueryFailureResults
          /\ out' = Append(out, StatsLine(Cardinality(discovered_peers),
                                          Cardinality(contacted_peers)))
          /\ cmds' = cmds]_vars

\* Witness of C5: the get_providers query failed before any peer was seen.
C5_Witness ==
    /\ pc = "done"
    /\ ev = QueryFailed(ActiveId)
    /\ result = "Err: Kademlia query failed"
    /\ out = <<StatsLine(0, 0)>>

\* C6: a QueryFailed whose identifier is not that of the most recently
\* issued command does not end the run and emits no statistics.
C6_StaleQueryFailedIgnored ==
    [][(pc = "kad" /\ ev.type = "QueryFailed" /\ ev.query_id # ActiveId)
          => pc' = "loop" /\ result' = result /\ out' = out]_vars

C8_AtMostOneActiveId ==
    pc \notin {"init", "await"} =>
        /\ Cardinality(MatchableIds) <= 1
        /\ MatchableIds \subseteq {ActiveId}

\* C9: get_providers is issued at most once.
C9_GetProvidersAtMostOnce ==
    Cardinality(GetProvidersIds(cmds)) <= 1

\* C10: no step increases the counter; once get_providers has been issued no
\* step issues find_node, and get_providers_query, once set, stays set.
C10_CounterAndPhaseMonotone ==
    [][/\ iterations' <= iterations
       /\ GetProvidersIds(cmds) # {} =>
             /\ FindNodeIds(cmds') = FindNodeIds(cmds)
             /\ get_providers_query' # None]_vars

\* Witness of C10: after prepopulation and get_providers, a further
\* FindNodeSuccess went through the FindNodeSuccess arm.
C10_Witness ==
    /\ prepopulate > 0
    /\ find_node_query = prepopulate
    /\ Cardinality(GetProvidersIds(cmds)) = 2

\* C11: no step removes a peer from the Discovered or the Contacted set, and a
\* RoutingTableUpdate or ConnectionEstablished naming only peers already
\* present leaves the set, hence the count it would report, unchanged.
C11_PeerSetsOnlyGrow ==
    [][/\ discovered_peers \subseteq discovered_peers'
       /\ contacted_peers \subseteq contacted_peers'
       /\ (/\ pc = "kad" /\ ev.type = "RoutingTableUpdate"
           /\ Range(ev.list) \subseteq discovered_peers) =>
             /\ discovered_peers' = discovered_peers
             /\ Cardinality(discovered_peers') = Cardinality(discovered_peers)
       /\ (/\ pc = "net" /\ ev.type = "ConnectionEstablished"
           /\ Range(ev.list) \subseteq contacted_peers) =>
             /\ contacted_peers' = contacted_peers
             /\ Cardinality(contacted_peers') = Cardinality(contacted_peers)]_vars

\* Witness of C11: a RoutingTableUpdate naming the same, already discovered
\* peer twice is about to be processed, after a repeated ConnectionEstablished.
C11_Witness ==
    /\ pc = "kad"
    /\ ev = RoutingTableUpdate(<<"p1", "p1">>)
    /\ "p1" \in discovered_peers
    /\ contacted_peers = Peers

\* C12: the run ends only in a step that processes a GetProvidersSuccess
\* matching the get_providers query and the requested key, a QueryFailed
\* carrying the identifier of the most recently issued command, or the end of
\* an underlying event stream (read here as the end of either stream); once
\* ended, nothing changes any more.
C12_OnlyThreeTerminationPaths ==
    [][/\ (pc # "done" /\ pc' = "done") =>
             \/ /\ pc = "kad" /\ ev.type = "GetProvidersSuccess"
                /\ ev.query_id = LastGetProvidersId /\ ev.key = provider_key
             \/ pc = "kad" /\ ev.type = "QueryFailed" /\ ev.query_id = ActiveId
             \/ pc \in {"kad", "net"} /\ ev.type = "None"
       /\ pc = "done" => UNCHANGED vars]_vars

\* The statistics reports written so far.
StatsLines == {i \in 1..Len(out) : out[i].line = "stats"}

\* C13 as stated: no statistics report is written while the run continues,
\* and every ended run has written exactly one.
C13_StatisticsExactlyOnce ==
    Cardinality(StatsLines) = IF pc = "done" THEN 1 ELSE 0

\* C13 amended: no statistics report is written while the run continues; a
\* run ended by success or by a query failure has written exactly one, in the
\* step that ended it; a run ended by the end of the Kademlia stream has
\* written none.
C13_StatisticsOnceUnlessStreamEnd ==
    Cardinality(StatsLines) =
        IF pc = "done" /\ result # "Err: libp2p Kademlia terminated"
        THEN 1 ELSE 0

\* Witness of C13 amended: a FIND_NODE failure ended the run and reported
\* peers discovered before it.
C13_Witness ==
    /\ pc = "done"
    /\ result = "Err: FIND_NODE query failed"
    /\ discovered_peers # {}
    /\ Cardinality(StatsLines) = 1

C15_ProvidersOfTerminatingEvent ==
    result = "Ok" =>
        /\ ev.type = "GetProvidersSuccess"
        /\ Len(out) = 1 + Len(ev.list)
        /\ out[1].line = "stats"
        /\ \A i \in 1..Len(ev.list) :
              out[i + 1].line = "provider" /\ out[i + 1].provider = ev.list[i]

\* Witness of C15: the run started with N = 0 ended on a GetProvidersSuccess
\* of its get_providers query carrying the providers P1, P2.
C15_Witness ==
    /\ result = "Ok"
    /\ prepopulate = 0
    /\ ev.query_id = 1
    /\ ev.list = <<"P1", "P2">>
    /\ Len(out) = 3

\* C16: processing a RoutingTableUpdate changes nothing but the Discovered
\* set, a ConnectionEstablished nothing but the Contacted set, and any other
\* transport outcome or unrecognised Kademlia event nothing at all: the
\* counter, the awaited identifiers, the commands issued, the output and the
\* result stay as they are and the loop goes back to select!.
C16_PassiveEventsFrame ==
    [][/\ (pc = "kad" /\ ev.type \in {"RoutingTableUpdate", "Other"}) =>
             /\ UNCHANGED <<orch, contacted_peers, result, out>>
             /\ pc' = "loop"
             /\ ev.type = "Other" => UNCHANGED discovered_peers
       /\ pc = "net" =>
             /\ UNCHANGED <<orch, discovered_peers, result, out>>
             /\ pc' = "loop"
             /\ ev.type # "ConnectionEstablished" => UNCHANGED contacted_peers]_vars

\* Witness of C16: both kinds of event have filled their sets while the
\* orchestrator is still where initialization left it.
C16_Witness ==
    /\ pc = "loop"
    /\ discovered_peers = Peers
    /\ contacted_peers = Peers
    /\ netEnded
    /\ prepopulate = MaxN
    /\ iterations = MaxN - 1
    /\ cmds = <<FindNodeCmd>>

\* C17: while main is suspended in the .await of a command no event is taken
\* or processed, and the step that resumes it records the identifier the
\* command returned; so whenever an event is held for matching the identifier
\* of the latest command is already recorded, and a resolution of the latest
\* command is never dropped: it makes the loop issue the next command or end
\* the run.
C17_OneEventAtATime ==
    [][/\ pc = "await" =>
             /\ ev = NoEvent /\ ev' = NoEvent /\ pc' = "loop"
             /\ UNCHANGED <<iterations, cmds, discovered_peers,
                            contacted_peers, result, out>>
             /\ ActiveId \in {find_node_query', get_providers_query'}
       /\ pc' \in {"net", "kad"} =>
             /\ pc = "loop"
             /\ ActiveId \in {find_node_query, get_providers_query}
       /\ (pc = "kad" /\ ev \in ResolutionEvents) =>
             cmds' # cmds \/ pc' = "done"]_vars

\* Witness of C17: the success of a find_node command issued by a handler is
\* held for matching, with its identifier recorded.
C17_Witness ==
    /\ pc = "kad"
    /\ Len(cmds) >= 2
    /\ ev = FindNodeSuccess(ActiveId)
    /\ find_node_query = ActiveId

\* C18: when the Kademlia stream yields None, before or after get_providers
\* has been issued, that step ends the run with an error, writes nothing to
\* the output and issues no command.
C18_KademliaEndNoReport ==
    [][(pc = "kad" /\ ev.type = "None") =>
          /\ pc' = "done"
          /\ result' \notin {"running", "Ok"}
          /\ out' = out /\ out' = <<>>
          /\ UNCHANGED orch]_vars

\* Witness of C18: the stream ended during prepopulation, after peers had
\* been discovered and contacted; nothing was reported.
C18_Witness ==
    /\ pc = "done"
    /\ ev = KadNone
    /\ get_providers_query = None
    /\ discovered_peers # {}
    /\ contacted_peers # {}
    /\ out = <<>>

\* C19: whenever no event is held for matching, the Discovered set is the set
\* of peers of all RoutingTableUpdates the Kademlia stream has yielded and the
\* Contacted set that of all ConnectionEstablished events the transport
\* stream has yielded, however the two streams were interleaved; and the
\* report of a run ended by success or by a query failure gives the sizes of
\* these two sets.
C19_ReportCountsAllEvents ==
    /\ pc \in {"loop", "await", "done"} =>
          discovered_peers = rtuSeen /\ contacted_peers = ceSeen
    /\ (pc = "done" /\ result # "Err: libp2p Kademlia terminated") =>
          out[1] = StatsLine(Cardinality(rtuSeen), Cardinality(ceSeen))

\* Witness of C19: a run ended by a query failure after two peers were
\* discovered and one contacted.
C19_Witness ==
    /\ pc = "done"
    /\ result \in QueryFailureResults
    /\ Cardinality(rtuSeen) = 2
    /\ Cardinality(ceSeen) = 1
    /\ out = <<StatsLine(2, 1)>>

\* The values the counter may hold at position p of a run started with n.
CounterInRange(p, it, n) ==
    IF n = 0 THEN it = 0
    ELSE IF p = "init" THEN it = n
    ELSE it \in 0..(n - 1)

\* C20: the counter changes only by a decrement of one from a strictly
\* positive value; it is never negative, lies in 0..N-1 once initialization
\* has run with N > 0, and is 0 throughout a run started with N = 0.
C20_CounterNeverUnderflows ==
    [][/\ iterations' # iterations =>
             iterations > 0 /\ iterations' = iterations - 1
       /\ CounterInRange(pc, iterations, prepopulate)
       /\ CounterInRange(pc', iterations', prepopulate)]_vars

\* Witness of C20: the counter is at zero after N decrements and a further
\* FindNodeSuccess of the last find_node query is held for matching.
C20_Witness ==
    /\ pc = "kad"
    /\ prepopulate = MaxN
    /\ iterations = 0
    /\ ev = FindNodeSuccess(find_node_query)
    /\ get_providers_query # None

\* ------------------------------------------------------------ type invariant
TypeOK ==
    /\ pc \in {"init", "loop", "net", "kad", "await", "done"}
    /\ prepopulate \in 0..MaxN
    /\ iterations \in 0..MaxN
    /\ find_node_query \in {None} \cup QueryIds
    /\ get_providers_query \in {None} \cup QueryIds
    /\ Len(cmds) <= MaxCmds
    /\ discovered_peers \subseteq Peers
    /\ contacted_peers \subseteq Peers

====
